---- MODULE Spec2Model ----
(***************************************************************************)
(* Model of the QWED-MCP tool gateway (src/src/qwed_mcp/tools.py):         *)
(* module-level acquisition of the optional guards, call_tool's dispatch   *)
(* over the tool name, and format_result's rendering and signing.          *)
(*                                                                         *)
(* Python values are pairs <<type, text>>; a dict is a function from its   *)
(* keys to values; a response text is the sequence of its segments.        *)
(***************************************************************************)
EXTENDS Naturals, Sequences, FiniteSets, TLC

VARIABLES
    modules,    \* the optional packages importable in this environment
    pc,         \* position of the process: the next import block, or serving
    guards,     \* the module-level guard globals: "unset", "None" or "obj"
    call,       \* the call in flight: request, backend/signer behaviour, outcome
    resp,       \* what call_tool handed back for the call in flight
    tasks,      \* the concurrent invocations of call_tool, by invocation number
    frames      \* the `result` local of each invocation between dispatch and format

vars == <<modules, pc, guards, call, resp, tasks, frames>>

\* ------------------------------------------------------------------ values

None == <<"NoneType", "None">>
PyTrue == <<"bool", "True">>
PyFalse == <<"bool", "False">>
PyStr(t) == <<"str", t>>
EmptyList == <<"list", "[]">>
PyList(t) == <<"list", t>>
PyInt(t) == <<"int", t>>

\* Python truthiness of the values used here.
Falsy == {None, PyFalse, PyStr(""), EmptyList, PyInt("0")}
Truthy(v) == v \notin Falsy

\* `a or b`
PyOr(a, b) == IF Truthy(a) THEN a ELSE b

\* str(v) / f-string interpolation
Str(v) == v[2]

\* dict.get(k)
Get(d, k) == IF k \in DOMAIN d THEN d[k] ELSE None

\* The marker used where a record field holds "absent" before being stripped.
ABSENT == <<"absent", "">>
Strip(r) == [k \in {x \in DOMAIN r : r[x] # ABSENT} |-> r[k]]

EmptyDict == [k \in {} |-> None]

\* str(KeyError(k))
KeyErrorMsg(k) == "'" \o k \o "'"

\* ------------------------------------------------------------------ startup

Modules == {"qwed_finance", "qwed_ucp", "qwed_legal",
            "qwed_new.guards.code_guard", "qwed_new.guards.sql_guard",
            "qwed.guards.attestation_guard"}

EnterpriseGuards == {"finance_guard", "iso_guard", "commerce_guard"}
LegalGuards == {"deadline_guard", "citation_guard", "liability_guard",
                "jurisdiction_guard", "statute_guard"}
TechnicalGuards == {"code_guard", "sql_guard"}
AttestationGuards == {"attestation_guard"}
GuardNames == EnterpriseGuards \cup LegalGuards \cup TechnicalGuards \cup AttestationGuards

\* One try/except ImportError block: every import of the block must succeed
\* for the guards of the block to be constructed; otherwise all become None.
TryBlock(importable, table, needed, names) ==
    [g \in GuardNames |->
        IF g \in names
        THEN (IF needed \subseteq importable THEN "obj" ELSE "None")
        ELSE table[g]]

AcquireEnterprise ==
    /\ pc = "enterprise"
    /\ guards' = TryBlock(modules, guards, {"qwed_finance", "qwed_ucp"}, EnterpriseGuards)
    /\ pc' = "legal"
    /\ UNCHANGED <<modules, call, resp, tasks, frames>>

AcquireLegal ==
    /\ pc = "legal"
    /\ guards' = TryBlock(modules, guards, {"qwed_legal"}, LegalGuards)
    /\ pc' = "technical"
    /\ UNCHANGED <<modules, call, resp, tasks, frames>>

AcquireTechnical ==
    /\ pc = "technical"
    /\ guards' = TryBlock(modules, guards, {"qwed_new.guards.code_guard", "qwed_new.guards.sql_guard"},
                          TechnicalGuards)
    /\ pc' = "attestation"
    /\ UNCHANGED <<modules, call, resp, tasks, frames>>

AcquireAttestation ==
    /\ pc = "attestation"
    /\ guards' = TryBlock(modules, guards, {"qwed.guards.attestation_guard"}, AttestationGuards)
    /\ pc' = "idle"
    /\ UNCHANGED <<modules, call, resp, tasks, frames>>

\* ----------------------------------------------------------------- registry

ToolNames == {"verify_math", "verify_iso_20022", "verify_logic", "verify_code",
              "verify_sql", "verify_banking_compliance",
              "verify_commerce_transaction", "verify_legal_deadline",
              "verify_legal_citation", "verify_legal_liability",
              "verify_legal_jurisdiction", "verify_legal_statute"}

\* inputSchema.properties of each tool
Properties(name) ==
    CASE name = "verify_math" -> {"expression", "claimed_result", "operation"}
      [] name = "verify_iso_20022" -> {"message_json", "msg_type"}
      [] name = "verify_logic" -> {"premises", "conclusion"}
      [] name = "verify_code" -> {"code", "language"}
      [] name = "verify_sql" -> {"query", "allowed_tables"}
      [] name = "verify_banking_compliance" -> {"scenario", "llm_output"}
      [] name = "verify_commerce_transaction" -> {"cart_json"}
      [] name = "verify_legal_deadline" -> {"signing_date", "term", "claimed_deadline"}
      [] name = "verify_legal_citation" -> {"citation"}
      [] name = "verify_legal_liability" ->
             {"contract_value", "cap_percentage", "claimed_cap"}
      [] name = "verify_legal_jurisdiction" ->
             {"governing_law", "forum", "parties_countries"}
      [] name = "verify_legal_statute" ->
             {"claim_type", "jurisdiction", "incident_date", "filing_date"}
      [] OTHER -> {}

\* inputSchema.required of each tool
Required(name) ==
    CASE name = "verify_math" -> {"expression", "claimed_result"}
      [] name = "verify_sql" -> {"query"}
      [] OTHER -> Properties(name)

\* The enumeration the schema declares for verify_math's `operation`.
OperationEnum == {"derivative", "integral", "simplify", "solve", "evaluate"}

\* -------------------------------------------------------------- exceptions

Exc(type, msg) == [type |-> type, msg |-> msg]
NoExc == Exc("", "")
KeyError(k) == Exc("KeyError", KeyErrorMsg(k))
AttributeError(owner, a) ==
    Exc("AttributeError", "'" \o owner \o "' object has no attribute '" \o a \o "'")
NotSubscriptable == Exc("TypeError", "'NoneType' object is not subscriptable")
NotIterable == Exc("TypeError", "argument of type 'int' is not iterable")

\* The exception classes raised in the model; all derive from Exception.
ExceptionClasses == {"Exception", "KeyError", "TypeError", "AttributeError",
                     "JSONDecodeError", "ValueError"}

\* ---------------------------------------------------------------- requests

\* The argument values the environment may send for a field.
ArgValues(field) ==
    CASE field = "scenario" ->
             {PyStr("Senior Citizen FD"), PyStr("home loan"), PyInt("5")}
      [] field = "llm_output" -> {PyStr("rate 0.5"), PyStr("rate 7")}
      [] field \in {"message_json", "cart_json"} -> {PyStr("{}"), PyStr("{")}
      [] field = "operation" -> {PyStr("derivative"), PyStr("bogus")}
      [] OTHER -> {PyStr("x")}

AllArgValues == UNION {ArgValues(f) : f \in UNION {Properties(n) : n \in ToolNames}}

ArgMaps(name) ==
    {Strip(r) : r \in {q \in [Properties(name) -> AllArgValues \cup {ABSENT}] :
                          \A f \in Properties(name) : q[f] \in ArgValues(f) \cup {ABSENT}}}

UnknownNames == {"verify_everything"}

\* `sub in v` for the texts used here (raises TypeError when v is not a str).
StrContains(sub, text) ==
    <<sub, text>> \in {<<"Senior Citizen", "Senior Citizen FD">>, <<"0.5", "rate 0.5">>}

\* json.loads(v): the parsed value, or the exception it raises.
JsonLoads(v) ==
    IF v[1] # "str" THEN [ok |-> FALSE, exc |-> Exc("TypeError", "the JSON object must be str, bytes or bytearray, not int")]
    ELSE IF v = PyStr("{}") THEN [ok |-> TRUE, exc |-> NoExc]
    ELSE [ok |-> FALSE, exc |-> Exc("JSONDecodeError", "Expecting property name enclosed in double quotes: line 1 column 2 (char 1)")]

\* ---------------------------------------------------------------- backends

Backends == {"math", "logic", "code", "sql", "iso", "commerce", "deadline",
             "citation", "liability", "jurisdiction", "statute"}

Flags == {ABSENT, PyTrue, PyFalse}

\* What the math and logic engines (qwed_mcp.engines) may hand back: a
\* verified-or-valid flag, a message or an error, optional diagnostics.
EngineShapes ==
             [verified : Flags, valid : Flags,
              message : {ABSENT, PyStr(""), PyStr("m")},
              error : {ABSENT, PyStr("e")}]
             \cup
             [verified : {PyTrue, PyFalse}, message : {PyStr("m")},
              issues : {ABSENT, None, EmptyList, PyList("['i']")},
              conflicts : {ABSENT, EmptyList, PyList("['c']")},
              violations : {ABSENT, EmptyList, PyList("['v']")},
              normalized : {ABSENT, PyStr("SELECT 1")}]

\* What a backend may hand back as a dict (an object's attributes for the
\* guards read by attribute); the ISO guard's dict reaches format_result as
\* it is, like the engines'.
RawShapes(b) ==
    CASE b \in {"math", "logic", "iso"} -> EngineShapes
      [] b = "code" ->
             [verified : Flags, message : {ABSENT, PyStr(""), PyStr("m")},
              violations : {ABSENT, EmptyList, PyList("['v']")}]
      [] b = "sql" ->
             [verified : Flags, message : {ABSENT, PyStr(""), PyStr("m")},
              normalized_query : {ABSENT, PyStr("SELECT 1")}]
      [] b = "commerce" ->
             [verified : Flags, error : {ABSENT, None, PyStr(""), PyStr("e")}]
      [] b \in {"deadline", "liability", "statute"} ->
             [verified : Flags, message : {ABSENT, None, PyStr(""), PyStr("m")}]
      [] b = "citation" ->
             [valid : Flags, issues : {ABSENT, EmptyList, PyList("['i']")}]
      [] b = "jurisdiction" ->
             [verified : Flags, message : {ABSENT, PyStr(""), PyStr("m")},
              conflicts : {ABSENT, EmptyList, PyList("['c']")}]

FaultMsgs == {"boom"}

Returned(d) == [kind |-> "return", val |-> d, exc |-> NoExc]
ReturnedNone == [kind |-> "none", val |-> EmptyDict, exc |-> NoExc]
Raised(e) == [kind |-> "raise", val |-> EmptyDict, exc |-> e]
NotInvoked == [kind |-> "idle", val |-> EmptyDict, exc |-> NoExc]

BackendOutcomes(b) ==
    {Returned(Strip(r)) : r \in RawShapes(b)}
    \cup {ReturnedNone}
    \cup {Raised(Exc("Exception", m)) : m \in FaultMsgs}

\* sign_verification: a token, or an exception
SignOutcomes == {[kind |-> "token", exc |-> NoExc],
                 [kind |-> "raise", exc |-> Exc("Exception", "key unavailable")]}

\* ----------------------------------------------------------------- dispatch

\* How the if/elif chain of call_tool ends for one tool: a result dict to
\* format, a non-dict result (None), an exception on its way to the outer
\* handler, or the unknown-tool return.
Result(d, inv) ==
    [k |-> "result", result |-> d, exc |-> NoExc, invoked |-> inv, inner |-> FALSE]
ResultNone(inv) ==
    [k |-> "none", result |-> EmptyDict, exc |-> NoExc, invoked |-> inv, inner |-> FALSE]
Raise(e, inv) ==
    [k |-> "raise", result |-> EmptyDict, exc |-> e, invoked |-> inv, inner |-> FALSE]
UnknownTool ==
    [k |-> "unknown", result |-> EmptyDict, exc |-> NoExc, invoked |-> {}, inner |-> FALSE]

\* The first key of `order` that arguments[...] fails on, "" when none does.
MissingKey(args, order) ==
    LET idx == {i \in 1..Len(order) : order[i] \notin DOMAIN args}
    IN  IF idx = {} THEN "" ELSE order[CHOOSE i \in idx : \A j \in idx : i <= j]

\* The class name of the object a guard returns, as its AttributeError shows it.
ResultClass == "Result"

\* The exception raised by reading the attributes `order` of what the
\* backend returned, NoExc when all can be read.
AttrFault(bo, order) ==
    IF bo.kind = "none" THEN AttributeError("NoneType", order[1])
    ELSE LET miss == MissingKey(bo.val, order)
         IN  IF miss = "" THEN NoExc ELSE AttributeError(ResultClass, miss)

\* A backend whose return value becomes `result` as it is.
PassThrough(b, bo) ==
    CASE bo.kind = "raise" -> Raise(bo.exc, {b})
      [] bo.kind = "none" -> ResultNone({b})
      [] OTHER -> Result(bo.val, {b})

\* `except Exception as e: result = {"verified": False, "error": str(e)}`
InnerExcept(type) == type \in ExceptionClasses
InnerHandler(e, inv) ==
    IF InnerExcept(e.type)
    THEN [k |-> "result", result |-> [verified |-> PyFalse, error |-> PyStr(e.msg)],
          exc |-> NoExc, invoked |-> inv, inner |-> TRUE]
    ELSE Raise(e, inv)

\* operation=arguments.get("operation", "evaluate"): the value the math
\* engine is called with.
MathOperation(args) ==
    IF "operation" \in DOMAIN args THEN args["operation"] ELSE PyStr("evaluate")

VerifyMath(args, bo) ==
    LET miss == MissingKey(args, <<"expression", "claimed_result">>)
    IN  IF miss # "" THEN Raise(KeyError(miss), {}) ELSE PassThrough("math", bo)

VerifyLogic(args, bo) ==
    LET miss == MissingKey(args, <<"premises", "conclusion">>)
    IN  IF miss # "" THEN Raise(KeyError(miss), {}) ELSE PassThrough("logic", bo)

VerifyCode(g, args, bo) ==
    IF g["code_guard"] = "obj"
    THEN CASE "code" \notin DOMAIN args -> Raise(KeyError("code"), {})
           [] bo.kind = "raise" -> Raise(bo.exc, {"code"})
           [] bo.kind = "none" -> Raise(NotSubscriptable, {"code"})
           [] "verified" \notin DOMAIN bo.val -> Raise(KeyError("verified"), {"code"})
           [] OTHER ->
                Result([verified |-> bo.val["verified"],
                        message |-> PyOr(Get(bo.val, "message"),
                                         PyStr("Code verified safe.")),
                        violations |-> Get(bo.val, "violations")], {"code"})
    ELSE Result([verified |-> PyFalse, error |-> PyStr("CodeGuard not installed")], {})

VerifySql(g, args, bo) ==
    IF g["sql_guard"] = "obj"
    THEN CASE "query" \notin DOMAIN args -> Raise(KeyError("query"), {})
           [] bo.kind = "raise" -> Raise(bo.exc, {"sql"})
           [] bo.kind = "none" -> Raise(NotSubscriptable, {"sql"})
           [] "verified" \notin DOMAIN bo.val -> Raise(KeyError("verified"), {"sql"})
           [] OTHER ->
                Result([verified |-> bo.val["verified"],
                        message |-> PyOr(Get(bo.val, "message"),
                                         PyStr("SQL verified safe.")),
                        normalized |-> Get(bo.val, "normalized_query")], {"sql"})
    ELSE Result([verified |-> PyFalse, error |-> PyStr("SQLGuard not installed")], {})

VerifyBankingComplianceUnguarded(g, args) ==
    LET miss == MissingKey(args, <<"scenario", "llm_output">>)
    IN  IF miss # "" THEN Raise(KeyError(miss), {})
        ELSE Result([verified |-> PyTrue,
                     message |-> PyStr("Verified: " \o Str(args["llm_output"]))], {})

VerifyBankingCompliance(g, args) ==
    IF g["finance_guard"] = "None"
    THEN Result([error |-> PyStr("qwed-finance missing")], {})
    ELSE LET miss == MissingKey(args, <<"scenario", "llm_output">>)
             scenario == args["scenario"]
             output_val == args["llm_output"]
         IN  CASE miss # "" -> Raise(KeyError(miss), {})
               [] scenario[1] # "str" -> Raise(NotIterable, {})
               [] StrContains("Senior Citizen", Str(scenario)) /\ output_val[1] # "str" ->
                    Raise(NotIterable, {})
               [] StrContains("Senior Citizen", Str(scenario))
                  /\ StrContains("0.5", Str(output_val)) ->
                    Result([verified |-> PyFalse,
                            message |-> PyStr("Logic Trap Detected: Senior Citizen Premium")],
                           {})
               [] OTHER ->
                    Result([verified |-> PyTrue,
                            message |-> PyStr("Verified: " \o Str(output_val))], {})

VerifyIso20022(g, args, bo) ==
    IF g["iso_guard"] = "None"
    THEN Result([error |-> PyStr("qwed-finance missing")], {})
    ELSE CASE "message_json" \notin DOMAIN args ->
                InnerHandler(KeyError("message_json"), {})
           [] ~JsonLoads(args["message_json"]).ok ->
                InnerHandler(JsonLoads(args["message_json"]).exc, {})
           [] "msg_type" \notin DOMAIN args -> InnerHandler(KeyError("msg_type"), {})
           [] bo.kind = "raise" -> InnerHandler(bo.exc, {"iso"})
           [] OTHER -> PassThrough("iso", bo)

VerifyCommerceTransaction(g, args, bo) ==
    IF g["commerce_guard"] = "None"
    THEN Result([error |-> PyStr("qwed-ucp missing")], {})
    ELSE CASE "cart_json" \notin DOMAIN args -> InnerHandler(KeyError("cart_json"), {})
           [] ~JsonLoads(args["cart_json"]).ok ->
                InnerHandler(JsonLoads(args["cart_json"]).exc, {})
           [] bo.kind = "raise" -> InnerHandler(bo.exc, {"commerce"})
           [] AttrFault(bo, <<"verified", "error">>) # NoExc ->
                InnerHandler(AttrFault(bo, <<"verified", "error">>), {"commerce"})
           [] OTHER ->
                Result([verified |-> bo.val["verified"],
                        message |-> PyOr(bo.val["error"], PyStr("Approved"))],
                       {"commerce"})

\* The five legal branches share one shape: guard check, argument reads in
\* source order, the guard's call, attribute reads in source order.
LegalBranch(g, guard, b, argOrder, attrOrder, args, bo, built) ==
    IF g[guard] = "None"
    THEN Result([error |-> PyStr("qwed-legal missing")], {})
    ELSE LET miss == MissingKey(args, argOrder)
         IN  CASE miss # "" -> Raise(KeyError(miss), {})
               [] bo.kind = "raise" -> Raise(bo.exc, {b})
               [] AttrFault(bo, attrOrder) # NoExc -> Raise(AttrFault(bo, attrOrder), {b})
               [] OTHER -> Result(built, {b})

VerifyLegalDeadline(g, args, bo) ==
    LegalBranch(g, "deadline_guard", "deadline",
                <<"signing_date", "term", "claimed_deadline">>,
                <<"verified", "message">>, args, bo,
                [verified |-> bo.val["verified"], message |-> bo.val["message"]])

VerifyLegalCitation(g, args, bo) ==
    LegalBranch(g, "citation_guard", "citation", <<"citation">>,
                <<"valid", "issues">>, args, bo,
                [verified |-> bo.val["valid"], issues |-> bo.val["issues"]])

VerifyLegalLiability(g, args, bo) ==
    LegalBranch(g, "liability_guard", "liability",
                <<"contract_value", "cap_percentage", "claimed_cap">>,
                <<"verified", "message">>, args, bo,
                [verified |-> bo.val["verified"], message |-> bo.val["message"]])

VerifyLegalJurisdiction(g, args, bo) ==
    LegalBranch(g, "jurisdiction_guard", "jurisdiction",
                <<"parties_countries", "governing_law">>,
                <<"verified", "message", "conflicts">>, args, bo,
                [verified |-> bo.val["verified"], message |-> bo.val["message"],
                 conflicts |-> bo.val["conflicts"]])

VerifyLegalStatute(g, args, bo) ==
    LegalBranch(g, "statute_guard", "statute",
                <<"claim_type", "jurisdiction", "incident_date", "filing_date">>,
                <<"verified", "message">>, args, bo,
                [verified |-> bo.val["verified"], message |-> bo.val["message"]])

\* The if/elif chain over `name`.
Branch(g, name, args, bo) ==
    CASE name = "verify_math" -> VerifyMath(args, bo)
      [] name = "verify_logic" -> VerifyLogic(args, bo)
      [] name = "verify_code" -> VerifyCode(g, args, bo)
      [] name = "verify_sql" -> VerifySql(g, args, bo)
      [] name = "verify_banking_compliance" -> VerifyBankingCompliance(g, args)
      [] name = "verify_iso_20022" -> VerifyIso20022(g, args, bo)
      [] name = "verify_commerce_transaction" -> VerifyCommerceTransaction(g, args, bo)
      [] name = "verify_legal_deadline" -> VerifyLegalDeadline(g, args, bo)
      [] name = "verify_legal_citation" -> VerifyLegalCitation(g, args, bo)
      [] name = "verify_legal_liability" -> VerifyLegalLiability(g, args, bo)
      [] name = "verify_legal_jurisdiction" -> VerifyLegalJurisdiction(g, args, bo)
      [] name = "verify_legal_statute" -> VerifyLegalStatute(g, args, bo)
      [] OTHER -> UnknownTool

\* The backend each tool's branch calls.
BackendOf(name) ==
    CASE name = "verify_math" -> "math"
      [] name = "verify_logic" -> "logic"
      [] name = "verify_code" -> "code"
      [] name = "verify_sql" -> "sql"
      [] name = "verify_iso_20022" -> "iso"
      [] name = "verify_commerce_transaction" -> "commerce"
      [] name = "verify_legal_deadline" -> "deadline"
      [] name = "verify_legal_citation" -> "citation"
      [] name = "verify_legal_liability" -> "liability"
      [] name = "verify_legal_jurisdiction" -> "jurisdiction"
      [] name = "verify_legal_statute" -> "statute"
      [] OTHER -> "none"

\* ------------------------------------------------------------ format_result

SigningExceptKeyErrorOnly(type) == type = "KeyError"

\* `except Exception as e` around sign_verification
SigningExcept(type) == type \in ExceptionClasses

\* f"tool:{signature_tool},result:{result.get('verified')}"
InputSummary(tool, result) == <<tool, Str(Get(result, "verified"))>>

\* The signature block: empty without a signer, the token (bound to the
\* summary it signs) on success, the inline note when signing raised.
SignatureBlock(result, tool, attestation_guard, so) ==
    IF attestation_guard = "obj"
    THEN IF so.kind = "token"
         THEN << <<"QWED Attestation">> \o InputSummary(tool, result) >>
         ELSE << <<"Signing failed", so.exc.msg>> >>
    ELSE << >>

\* `if result.get("verified") or result.get("valid")`
Status(result) ==
    IF Truthy(Get(result, "verified")) \/ Truthy(Get(result, "valid"))
    THEN "VERIFIED" ELSE "FAILED"

\* result.get('message') or result.get('error') or "No details"
Message(result) ==
    PyOr(PyOr(Get(result, "message"), Get(result, "error")), PyStr("No details"))

\* `if key in result and result[key]: output += f"Label: {result[key]}\n"`
Section(result, label, key) ==
    IF key \in DOMAIN result /\ Truthy(result[key])
    THEN << <<label, Str(result[key])>> >> ELSE << >>

\* The rendered text as the sequence of its segments.
FormatText(result, tool, attestation_guard, so) ==
    << <<"status", Status(result)>>, <<"Result", Str(Message(result))>> >>
    \o Section(result, "Issues", "issues")
    \o Section(result, "Conflicts", "conflicts")
    \o Section(result, "Violations", "violations")
    \o SignatureBlock(result, tool, attestation_guard, so)

\* format_result on what the branch left in `result`: the text, or the
\* exception that leaves it: the AttributeError of result.get on a result
\* that is no dict (raised again at the status test after the signing
\* handler swallowed the first one), or a signing fault the signing
\* handler does not catch.
FormatResult(g, br, tool, so) ==
    LET attestation_guard == g["attestation_guard"]
        signing == attestation_guard = "obj" /\ br.k = "result"
    IN  CASE br.k = "none" ->
               [ok |-> FALSE, text |-> << >>,
                exc |-> AttributeError("NoneType", "get"),
                signer |-> "idle", summary |-> << >>]
          [] signing /\ so.kind = "raise" /\ ~SigningExcept(so.exc.type) ->
               [ok |-> FALSE, text |-> << >>, exc |-> so.exc,
                signer |-> so.kind, summary |-> InputSummary(tool, br.result)]
          [] OTHER ->
               [ok |-> TRUE,
                text |-> FormatText(br.result, tool, attestation_guard, so),
                exc |-> NoExc,
                signer |-> IF signing THEN so.kind ELSE "idle",
                summary |-> IF signing THEN InputSummary(tool, br.result) ELSE << >>]

\* ---------------------------------------------------------------- call_tool

OuterExceptKeyErrorOnly(type) == type = "KeyError"

\* `except Exception as e` of call_tool
OuterExcept(type) == type \in ExceptionClasses

\* The list of TextContent call_tool returns, with what happened on the way.
Outcome(texts, br, fr, caught, escaped) ==
    [texts |-> texts, k |-> br.k, invoked |-> br.invoked, inner |-> br.inner,
     handed |-> (br.k \in {"result", "none"}),
     result |-> br.result, signer |-> fr.signer, summary |-> fr.summary,
     caught |-> caught, escaped |-> escaped]

NoFormat == [ok |-> FALSE, text |-> << >>, exc |-> NoExc, signer |-> "idle",
             summary |-> << >>]

OuterHandler(e, br, fr) ==
    IF OuterExcept(e.type)
    THEN Outcome(<< << <<"Verification error", e.msg>> >> >>, br, fr, e, FALSE)
    ELSE Outcome(<< >>, br, fr, NoExc, TRUE)

\* From the end of the if/elif chain to the return: format_result on the
\* `result` the chain left, and the outer handler.
Respond(g, br, name, so) ==
    LET fr == FormatResult(g, br, name, so)
    IN  CASE br.k = "unknown" ->
               Outcome(<< << <<"Unknown tool", name>> >> >>, br, NoFormat, NoExc, FALSE)
          [] br.k = "raise" -> OuterHandler(br.exc, br, NoFormat)
          [] ~fr.ok -> OuterHandler(fr.exc, br, fr)
          [] OTHER -> Outcome(<< fr.text >>, br, fr, NoExc, FALSE)

CallToolBody(g, name, args, bo, so) == Respond(g, Branch(g, name, args, bo), name, so)

Requests ==
    {[name |-> n, args |-> a] : n \in ToolNames, a \in {EmptyDict}} \cup
    UNION {{[name |-> n, args |-> a] : a \in ArgMaps(n)} : n \in ToolNames} \cup
    {[name |-> n, args |-> a] : n \in UnknownNames,
                                a \in {EmptyDict, [expression |-> PyStr("x")]}}

\* The behaviours the backend of this call can show: only those of the
\* backend the branch reaches, one placeholder when it reaches none.
OutcomesFor(g, name, args) ==
    IF Branch(g, name, args, ReturnedNone).invoked = {}
    THEN {NotInvoked} ELSE BackendOutcomes(BackendOf(name))

SignOutcomesFor(g, name, args, bo) ==
    IF g["attestation_guard"] = "obj" /\ Branch(g, name, args, bo).k = "result"
    THEN SignOutcomes ELSE {[kind |-> "idle", exc |-> NoExc]}

NoCall == [name |-> "", args |-> EmptyDict, backend |-> "idle", fault |-> NoExc,
           k |-> "", operation |-> None,
           invoked |-> {}, inner |-> FALSE, handed |-> FALSE, result |-> EmptyDict,
           signer |-> "idle", signfault |-> NoExc, summary |-> << >>,
           caught |-> NoExc, escaped |-> FALSE]
NoResp == << >>

CallTool ==
    /\ pc = "idle"
    /\ \E rq \in Requests :
       \E bo \in OutcomesFor(guards, rq.name, rq.args) :
       \E so \in SignOutcomesFor(guards, rq.name, rq.args, bo) :
          LET out == CallToolBody(guards, rq.name, rq.args, bo, so)
          IN  /\ call' = [name |-> rq.name, args |-> rq.args,
                          backend |-> bo.kind, fault |-> bo.exc, k |-> out.k,
                          invoked |-> out.invoked, inner |-> out.inner,
                          handed |-> out.handed, result |-> out.result,
                          signer |-> out.signer, signfault |-> so.exc,
                          summary |-> out.summary,
                          operation |-> IF "math" \in out.invoked
                                        THEN MathOperation(rq.args) ELSE None,
                          caught |-> out.caught, escaped |-> out.escaped]
              /\ resp' = out.texts
    /\ pc' = "returned"
    /\ UNCHANGED <<modules, guards, tasks, frames>>

\* The framework hands the response to the client; the handler's frame is gone.
Deliver ==
    /\ pc = "returned"
    /\ pc' = "idle"
    /\ call' = NoCall
    /\ resp' = NoResp
    /\ UNCHANGED <<modules, guards, tasks, frames>>

\* ------------------------------------------------------ concurrent calls

\* The number of invocations of call_tool in flight at once.
NCalls == 2

\* The requests sent concurrently, each with what its backend and the signer
\* do for it: different tools, the same tool with different arguments, every
\* diagnostic collection, a backend fault, an unknown tool.
ConcInputs ==
    LET Token == [kind |-> "token", exc |-> NoExc]
        SignFault == [kind |-> "raise", exc |-> Exc("Exception", "key unavailable")]
        MathArgs == [expression |-> PyStr("x"), claimed_result |-> PyStr("x")]
    IN  {[name |-> "verify_legal_citation", args |-> [citation |-> PyStr("x")],
          bo |-> Returned([valid |-> PyTrue, issues |-> PyList("['i']")]), so |-> Token],
         [name |-> "verify_legal_jurisdiction",
          args |-> [parties_countries |-> PyStr("x"), governing_law |-> PyStr("x")],
          bo |-> Returned([verified |-> PyFalse, message |-> PyStr("m"),
                           conflicts |-> PyList("['c']")]), so |-> Token],
         [name |-> "verify_code", args |-> [code |-> PyStr("x")],
          bo |-> Returned([verified |-> PyFalse, violations |-> PyList("['v']")]),
          so |-> SignFault],
         [name |-> "verify_math", args |-> MathArgs,
          bo |-> Raised(Exc("Exception", "boom")), so |-> Token],
         [name |-> "verify_math", args |-> MathArgs @@ [operation |-> PyStr("derivative")],
          bo |-> Returned([verified |-> PyTrue, message |-> PyStr("m")]), so |-> Token],
         [name |-> "verify_banking_compliance",
          args |-> [scenario |-> PyStr("Senior Citizen FD"), llm_output |-> PyStr("rate 0.5")],
          bo |-> NotInvoked, so |-> Token],
         [name |-> "verify_banking_compliance",
          args |-> [scenario |-> PyStr("home loan"), llm_output |-> PyStr("rate 7")],
          bo |-> NotInvoked, so |-> Token],
         [name |-> "verify_everything", args |-> EmptyDict, bo |-> NotInvoked,
          so |-> Token]}

\* The environments the concurrent calls are run in.
ConcModules == {Modules, Modules \ {"qwed.guards.attestation_guard"}, {"qwed_legal"}}

FreeTask == [st |-> "free", name |-> "", args |-> EmptyDict, bo |-> NotInvoked,
             so |-> [kind |-> "idle", exc |-> NoExc], texts |-> << >>,
             overlapped |-> FALSE]
NoFrame == [k |-> "", result |-> EmptyDict, exc |-> NoExc, invoked |-> {},
            inner |-> FALSE]

ResultSlotShared(i) == 1

\* Where invocation i keeps `result`: a local of its own frame.
ResultSlot(i) == i

\* A request arrives and an invocation of call_tool is created for it.
Receive(i) ==
    /\ pc = "idle"
    /\ tasks[i].st = "free"
    /\ \E inp \in ConcInputs :
          tasks' = [tasks EXCEPT ![i] =
                       [st |-> "received", name |-> inp.name, args |-> inp.args,
                        bo |-> inp.bo, so |-> inp.so, texts |-> << >>,
                        overlapped |-> FALSE]]
    /\ UNCHANGED <<modules, pc, guards, call, resp, frames>>

\* Invocation i runs the if/elif chain and leaves its outcome in `result`.
Dispatch(i) ==
    /\ tasks[i].st = "received"
    /\ frames' = [frames EXCEPT ![ResultSlot(i)] =
                     Branch(guards, tasks[i].name, tasks[i].args, tasks[i].bo)]
    /\ tasks' = [tasks EXCEPT ![i].st = "dispatched"]
    /\ UNCHANGED <<modules, pc, guards, call, resp>>

\* Invocation i formats `result` (or handles the exception) and returns.
Finish(i) ==
    /\ tasks[i].st = "dispatched"
    /\ tasks' = [tasks EXCEPT
                    ![i].st = "returned",
                    ![i].texts = Respond(guards, frames[ResultSlot(i)], tasks[i].name,
                                         tasks[i].so).texts,
                    ![i].overlapped =
                        \E j \in 1..NCalls : j # i /\ tasks[j].st = "dispatched"]
    /\ frames' = [frames EXCEPT ![ResultSlot(i)] = NoFrame]
    /\ UNCHANGED <<modules, pc, guards, call, resp>>

\* The response of invocation i is handed to its client.
Collect(i) ==
    /\ tasks[i].st = "returned"
    /\ tasks' = [tasks EXCEPT ![i] = FreeTask]
    /\ UNCHANGED <<modules, pc, guards, call, resp, frames>>

Init ==
    /\ modules \in SUBSET Modules
    /\ pc = "enterprise"
    /\ guards = [g \in GuardNames |-> "unset"]
    /\ call = NoCall
    /\ resp = NoResp
    /\ tasks = [i \in 1..NCalls |-> FreeTask]
    /\ frames = [i \in 1..NCalls |-> NoFrame]

Next ==
    \/ AcquireEnterprise
    \/ AcquireLegal
    \/ AcquireTechnical
    \/ AcquireAttestation
    \/ CallTool
    \/ Deliver

Spec == Init /\ [][Next]_vars

\* The process serving concurrent invocations. call_tool holds no await, so
\* the event loop runs each invocation to its return; the steps here also
\* let invocations interleave between dispatch and formatting, as worker
\* threads would, which includes every schedule of the event loop.
InitConc == Init /\ modules \in ConcModules

NextConc ==
    \/ AcquireEnterprise
    \/ AcquireLegal
    \/ AcquireTechnical
    \/ AcquireAttestation
    \/ \E i \in 1..NCalls : Receive(i)
    \/ \E i \in 1..NCalls : Dispatch(i)
    \/ \E i \in 1..NCalls : Finish(i)
    \/ \E i \in 1..NCalls : Collect(i)

SpecConc == InitConc /\ [][NextConc]_vars

\* ------------------------------------------------------------------ claims

\* The response holds the segment `seg`.
HasSeg(seg) ==
    \E t \in 1..Len(resp) : \E i \in 1..Len(resp[t]) : resp[t][i] = seg
StatusLine(s) == HasSeg(<<"status", s>>)
HasToken ==
    \E t \in 1..Len(resp) : \E i \in 1..Len(resp[t]) : resp[t][i][1] = "QWED Attestation"
Done == pc = "returned"

\* The guard global each tool's branch tests, and the text its branch
\* reports when that guard is None.
GuardOf(name) ==
    CASE name = "verify_code" -> "code_guard"
      [] name = "verify_sql" -> "sql_guard"
      [] name = "verify_banking_compliance" -> "finance_guard"
      [] name = "verify_iso_20022" -> "iso_guard"
      [] name = "verify_commerce_transaction" -> "commerce_guard"
      [] name = "verify_legal_deadline" -> "deadline_guard"
      [] name = "verify_legal_citation" -> "citation_guard"
      [] name = "verify_legal_liability" -> "liability_guard"
      [] name = "verify_legal_jurisdiction" -> "jurisdiction_guard"
      [] name = "verify_legal_statute" -> "statute_guard"
      [] OTHER -> "none"

MissingCapabilityText(name) ==
    CASE name = "verify_code" -> "CodeGuard not installed"
      [] name = "verify_sql" -> "SQLGuard not installed"
      [] name \in {"verify_banking_compliance", "verify_iso_20022"} ->
             "qwed-finance missing"
      [] name = "verify_commerce_transaction" -> "qwed-ucp missing"
      [] OTHER -> "qwed-legal missing"

\* The package a guard's class is imported from.
OwnModule(g) ==
    CASE g \in {"finance_guard", "iso_guard"} -> "qwed_finance"
      [] g = "commerce_guard" -> "qwed_ucp"
      [] g \in LegalGuards -> "qwed_legal"
      [] g = "code_guard" -> "qwed_new.guards.code_guard"
      [] g = "sql_guard" -> "qwed_new.guards.sql_guard"
      [] g = "attestation_guard" -> "qwed.guards.attestation_guard"

\* C1: whatever the tool name, the arguments, the guards acquired and the
\* behaviour of the backend and the signer, a finished call_tool has handed
\* back exactly one response and no exception has left it.
C1_ExactlyOneResponse ==
    Done => (Len(resp) = 1 /\ Len(resp[1]) >= 1 /\ ~call.escaped)

\* An invoked backend raised and the fault ended in the outer handler, whose
\* text is the one response.
C1_Witness ==
    /\ Done
    /\ call.backend = "raise"
    /\ call.invoked # {}
    /\ call.caught = call.fault
    /\ Len(resp) = 1

\* C2: an unknown tool name gives a FAILED status line with a message that
\* names the tool as unknown, and no backend is invoked.
C2_UnknownToolReportsFailed ==
    (Done /\ call.name \notin ToolNames) =>
        /\ StatusLine("FAILED")
        /\ \E t \in 1..Len(resp) : \E i \in 1..Len(resp[t]) :
              resp[t][i][Len(resp[t][i])] = call.name
        /\ call.invoked = {}

\* C3: a call that omits a field its schema requires gives a FAILED status
\* line and invokes no backend.
C3_MissingRequiredRejected ==
    (Done /\ call.name \in ToolNames /\ ~(Required(call.name) \subseteq DOMAIN call.args)) =>
        (StatusLine("FAILED") /\ call.invoked = {})

\* C4: a tool whose guard is None answers FAILED with the text naming the
\* missing capability, and its backend is not invoked; on every call.
C4_MissingCapability ==
    (Done /\ GuardOf(call.name) # "none" /\ guards[GuardOf(call.name)] = "None") =>
        /\ Len(resp) = 1
        /\ Len(resp[1]) >= 2
        /\ resp[1][1] = <<"status", "FAILED">>
        /\ resp[1][2] = <<"Result", MissingCapabilityText(call.name)>>
        /\ call.invoked = {}

\* A complete verify_iso_20022 request arrives while iso_guard is None (here
\* although qwed_finance itself is importable), with the signer present.
C4_Witness ==
    /\ Done
    /\ call.name = "verify_iso_20022"
    /\ guards["iso_guard"] = "None"
    /\ Required(call.name) \subseteq DOMAIN call.args
    /\ guards["attestation_guard"] = "obj"
    /\ StatusLine("FAILED")

\* C5: when an invoked backend raises, the response has a FAILED status line
\* and carries the fault's message, for every tool.
C5_BackendFaultReportsFailed ==
    (Done /\ call.backend = "raise" /\ call.invoked # {}) =>
        /\ StatusLine("FAILED")
        /\ \E t \in 1..Len(resp) : \E i \in 1..Len(resp[t]) :
              resp[t][i][Len(resp[t][i])] = call.fault.msg

\* The verified flag by the priority rule: `verified` when present, else
\* `valid` when present, else false.
PriorityVerified(result) ==
    IF "verified" \in DOMAIN result THEN Truthy(result["verified"])
    ELSE IF "valid" \in DOMAIN result THEN Truthy(result["valid"])
    ELSE FALSE

\* C6: the status line format_result renders follows the priority rule.
C6_StatusFollowsPriority ==
    (Done /\ call.k = "result" /\ ~call.escaped /\ call.caught = NoExc) =>
        (StatusLine("VERIFIED") <=> PriorityVerified(call.result))

\* C7: with the signer acquired and signing not failing every response holds
\* a token; without the signer none does.
C7_TokenOnEveryResponse ==
    Done =>
        /\ (guards["attestation_guard"] = "obj" /\ call.signer # "raise") => HasToken
        /\ (guards["attestation_guard"] = "None") => ~HasToken

\* C8: when the signer is present and sign_verification raises, the response
\* is the text format_result renders for the same result without a signer,
\* followed by the signing-failure note; a VERIFIED status stays VERIFIED.
C8_SigningFailureKeepsVerdict ==
    (Done /\ call.signer = "raise") =>
        /\ Len(resp) = 1
        /\ resp[1] = FormatText(call.result, call.name, "None", [kind |-> "idle", exc |-> NoExc])
                     \o << <<"Signing failed", call.signfault.msg>> >>
        /\ (Truthy(Get(call.result, "verified")) \/ Truthy(Get(call.result, "valid")))
              => resp[1][1] = <<"status", "VERIFIED">>

\* Signing raised on a verified result that carries an issues section.
C8_Witness ==
    /\ Done
    /\ call.signer = "raise"
    /\ StatusLine("VERIFIED")
    /\ HasSeg(<<"Issues", "['i']">>)
    /\ HasSeg(<<"Signing failed", "key unavailable">>)

\* C9: the flag in the summary handed to the signer is true exactly when
\* the status line says VERIFIED.
C9_SignedFlagIsNormalized ==
    (Done /\ call.signer = "token") =>
        ((call.summary[2] = "True") <=> StatusLine("VERIFIED"))

\* C10: after startup a guard is available whenever its own package is
\* importable, whatever the other packages are.
C10_IndependentAcquisition ==
    (pc \in {"idle", "returned"}) =>
        \A g \in GuardNames : (OwnModule(g) \in modules) => guards[g] = "obj"

\* C11: a verify_math call (its required fields given) whose `operation` is
\* outside the enumeration the schema declares gives a FAILED status line,
\* and the math engine is not called with that value.
C11_OperationEnumEnforced ==
    (Done /\ call.name = "verify_math"
          /\ Required(call.name) \subseteq DOMAIN call.args
          /\ "operation" \in DOMAIN call.args
          /\ Str(call.args["operation"]) \notin OperationEnum) =>
        /\ StatusLine("FAILED")
        /\ ~("math" \in call.invoked /\ call.operation = call.args["operation"])

\* The label under which each diagnostic collection of a result is rendered.
DiagnosticLabel(key) ==
    CASE key = "issues" -> "Issues"
      [] key = "conflicts" -> "Conflicts"
      [] key = "violations" -> "Violations"
      [] key = "normalized" -> "Normalized"
DiagnosticKeys == {"issues", "conflicts", "violations", "normalized"}
HasLabel(label) ==
    \E t \in 1..Len(resp) : \E i \in 1..Len(resp[t]) : resp[t][i][1] = label

\* C13: of the result handed to format_result, each diagnostic collection
\* (issues, conflicts, violations, normalized form) has its labelled section
\* in the response exactly when it is present and non-empty.
C13_DiagnosticsRenderedIffPresent ==
    (Done /\ call.k = "result" /\ call.caught = NoExc /\ ~call.escaped) =>
        \A key \in DiagnosticKeys :
            HasLabel(DiagnosticLabel(key)) <=>
                (key \in DOMAIN call.result /\ Truthy(call.result[key]))

SuccessDefaults == {"Code verified safe.", "SQL verified safe.", "Approved"}

\* C14: for verify_code, verify_sql and verify_commerce_transaction, when the
\* backend reports verified false the response does not carry one of the
\* success default messages.
C14_NoSuccessMessageOnFailure ==
    (Done /\ call.name \in {"verify_code", "verify_sql", "verify_commerce_transaction"}
          /\ call.backend = "return" /\ call.k = "result"
          /\ "verified" \in DOMAIN call.result /\ call.result["verified"] = PyFalse) =>
        \A m \in SuccessDefaults : ~HasSeg(<<"Result", m>>)

\* The guard table the four import blocks leave, in source order.
StartupTable(importable) ==
    LET g0 == [g \in GuardNames |-> "unset"]
        g1 == TryBlock(importable, g0, {"qwed_finance", "qwed_ucp"}, EnterpriseGuards)
        g2 == TryBlock(importable, g1, {"qwed_legal"}, LegalGuards)
        g3 == TryBlock(importable, g2, {"qwed_new.guards.code_guard",
                                        "qwed_new.guards.sql_guard"}, TechnicalGuards)
    IN  TryBlock(importable, g3, {"qwed.guards.attestation_guard"}, AttestationGuards)

\* C12: with several invocations of call_tool in flight, in any interleaving
\* of their steps, the response of each is the response call_tool gives to
\* the same request run alone, and the guards stay as startup left them.
C12_CallsIndependent ==
    /\ \A i \in 1..NCalls :
          tasks[i].st = "returned" =>
              tasks[i].texts = CallToolBody(StartupTable(modules), tasks[i].name,
                                            tasks[i].args, tasks[i].bo, tasks[i].so).texts
    /\ (\E i \in 1..NCalls : tasks[i].st # "free") => guards = StartupTable(modules)

\* Invocation 1 returned its issues section although it was formatted while
\* invocation 2, holding a result with conflicts, was between dispatch and
\* formatting.
C12_Witness ==
    /\ tasks[1].st = "returned"
    /\ tasks[1].overlapped
    /\ \E k \in 1..Len(tasks[1].texts[1]) : tasks[1].texts[1][k] = <<"Issues", "['i']">>
    /\ tasks[2].st = "dispatched"
    /\ "conflicts" \in DOMAIN frames[ResultSlot(2)].result

====
